---- MODULE Spec2Model ----
(***************************************************************************)
(* Model of the tlbf crate (src/src/lib.rs): type level bitflags.          *)
(*                                                                         *)
(*  - the tlbf! macro: its four arms rewrite a declaration step by step    *)
(*    into the explicit-value form and then into a container type, its     *)
(*    named constants and one marker type per flag;                        *)
(*  - the tyflags! macro;                                                  *)
(*  - the SetMember trait and its three implementors: the container, the   *)
(*    flag markers and the Or<A, B> combinator, with the container's       *)
(*    bitwise operators.                                                   *)
(*                                                                         *)
(* Two specifications: SpecExpand runs the macro expander on one macro     *)
(* invocation; Spec runs the generated API on a declared group.            *)
(***************************************************************************)
EXTENDS Integers, Sequences, FiniteSets, TLC

VARIABLES
    decl,    \* the macro invocation as written by the user
    inv,     \* the macro invocation the expander is looking at
    ctx,     \* tyflags!: the Or<first, _> wrappers around the pending invocation
    pc,      \* where the build is
    depth,   \* macro recursion depth
    out,     \* what the build produced
    group,   \* the declared group the generated API belongs to
    c,       \* a container value (the left operand, `self`)
    m,       \* a set member (the right operand)
    ret      \* the last call and what it returned

vars == <<decl, inv, ctx, pc, depth, out, group, c, m, ret>>
expandVars == <<decl, inv, ctx, pc, depth, out>>
apiVars == <<group, c, m, ret>>

(***************************************************************************)
(* Bounds                                                                  *)
(***************************************************************************)
\* flags declared beyond the width of the representation
MaxExtra == 1
\* expressions handed to tyflags!
MaxExprs == 3
\* flags of the group the generated API is exercised on
MaxGroup == 3
\* leaves (markers, container type) of an Or<_, _> nesting
MaxLeaves == 3

\* the representations a group is declared over: u8 and u16
Reprs == {8, 16}

\* rustc's default macro recursion limit; the crate sets no recursion_limit
RecursionLimit == 128

None == [kind |-> "none"]

(***************************************************************************)
(* Primitive integer operations of the representation type                 *)
(***************************************************************************)
RECURSIVE Pow2(_)
Pow2(k) == IF k = 0 THEN 1 ELSE 2 * Pow2(k - 1)

RECURSIVE BitAnd(_, _)
BitAnd(a, b) ==
    IF a = 0 \/ b = 0 THEN 0
    ELSE (a % 2) * (b % 2) + 2 * BitAnd(a \div 2, b \div 2)

RECURSIVE BitOr(_, _)
BitOr(a, b) ==
    IF a = 0 THEN b
    ELSE IF b = 0 THEN a
    ELSE (IF a % 2 = 1 \/ b % 2 = 1 THEN 1 ELSE 0) + 2 * BitOr(a \div 2, b \div 2)

RECURSIVE BitXor(_, _)
BitXor(a, b) ==
    IF a = 0 THEN b
    ELSE IF b = 0 THEN a
    ELSE ((a + b) % 2) + 2 * BitXor(a \div 2, b \div 2)

Bit(a, i) == (a \div Pow2(i)) % 2 = 1

\* `1 << v` wraps instead of being rejected
ShlConstWrapping(w, v) == [ok |-> TRUE, val |-> Pow2(v % w)]

\* `1 << (v)` in a constant of a w-bit type: constant evaluation rejects a
\* shift by w or more
ShlConst(w, v) ==
    IF v >= w THEN [ok |-> FALSE, val |-> 0]
    ELSE [ok |-> TRUE, val |-> Pow2(v)]

\* an expression `0 + 1 + ... + 1` is the sequence of its literals
RECURSIVE EvalExpr(_)
EvalExpr(e) == IF e = <<>> THEN 0 ELSE Head(e) + EvalExpr(Tail(e))

(***************************************************************************)
(* tlbf!: the declaration facility                                         *)
(*                                                                         *)
(* An invocation is                                                        *)
(*   [macro, repr, derive, list, trailing, hasAcc, acc, value]             *)
(* list: the flags of the first brace group, each [name, hasVal, val];     *)
(* hasAcc, acc, value: the accumulator group `{..} (value)` when present;  *)
(* derive: the group carries #[derive(Default)] among its attributes.      *)
(***************************************************************************)
Ident(k) == "F" \o ToString(k)

NoValues(items) == \A i \in 1..Len(items) : ~items[i].hasVal
AllValues(items) == \A i \in 1..Len(items) : items[i].hasVal

\* the declaration `derive Name: repr { F1, ..., Fn [,] }`
Sequential(repr, derive, n, trailing) ==
    [macro |-> "tlbf", repr |-> repr, derive |-> derive,
     list |-> [i \in 1..n |-> [name |-> Ident(i), hasVal |-> FALSE, val |-> <<>>]],
     trailing |-> trailing, hasAcc |-> FALSE, acc |-> <<>>, value |-> <<>>]

\* arm 1: a list of bare names and nothing after it
Arm1Matches(i) ==
    /\ i.macro = "tlbf"
    /\ ~i.hasAcc
    /\ NoValues(i.list)

Arm1(i) == [i EXCEPT !.trailing = FALSE, !.hasAcc = TRUE, !.acc = <<>>, !.value = <<0>>]

\* arm 2: a non-empty list of bare names, then the accumulator and the value
Arm2Matches(i) ==
    /\ i.macro = "tlbf"
    /\ i.hasAcc
    /\ Len(i.list) >= 1
    /\ NoValues(i.list)
    /\ AllValues(i.acc)

\* the accumulator takes the next index but the value is not incremented
Arm2NoIncrement(i) ==
    [i EXCEPT !.list = Tail(i.list),
              !.trailing = FALSE,
              !.acc = Append(i.acc, [name |-> Head(i.list).name, hasVal |-> TRUE,
                                     val |-> i.value])]

Arm2(i) ==
    [i EXCEPT !.list = Tail(i.list),
              !.trailing = FALSE,
              !.acc = Append(i.acc, [name |-> Head(i.list).name, hasVal |-> TRUE,
                                     val |-> i.value]),
              !.value = Append(i.value, 1)]

\* arm 3: an empty list, then the accumulator and the value
Arm3Matches(i) ==
    /\ i.macro = "tlbf"
    /\ i.hasAcc
    /\ Len(i.list) = 0
    /\ AllValues(i.acc)

Arm3(i) == [i EXCEPT !.list = i.acc, !.trailing = FALSE, !.hasAcc = FALSE,
                     !.acc = <<>>, !.value = <<>>]

\* arm 4: a list of `name = value` and nothing after it
Arm4Matches(i) ==
    /\ i.macro = "tlbf"
    /\ ~i.hasAcc
    /\ AllValues(i.list)

\* the items arm 4 emits: the container and, per flag, a constant
\* `Self(1 << (value))` and a marker type
Arm4(i) ==
    [kind |-> "items", repr |-> i.repr, derive |-> i.derive,
     consts |-> [k \in 1..Len(i.list) |-> [name |-> i.list[k].name, shift |-> i.list[k].val]]]

\* the named constants of the emitted items, evaluated
ConstEval(items) ==
    [k \in 1..Len(items.consts) |-> ShlConst(items.repr, EvalExpr(items.consts[k].shift))]

\* the group a build produces from the emitted items
Built(items) ==
    [kind |-> "group", repr |-> items.repr, derive |-> items.derive,
     names |-> [k \in 1..Len(items.consts) |-> items.consts[k].name],
     consts |-> [k \in 1..Len(items.consts) |-> ConstEval(items)[k].val]]

\* macro_rules tries the arms in order and takes the first that matches; the
\* whole expansion of a declaration, down to the emitted items
RECURSIVE ExpandAll(_)
ExpandAll(i) ==
    IF Arm1Matches(i) THEN ExpandAll(Arm1(i))
    ELSE IF Arm2Matches(i) THEN ExpandAll(Arm2(i))
    ELSE IF Arm3Matches(i) THEN ExpandAll(Arm3(i))
    ELSE Arm4(i)

(***************************************************************************)
(* tyflags!: the type level join                                           *)
(*                                                                         *)
(* An invocation is [macro, exprs, trailing]; a type is an expression      *)
(* [kind |-> "expr", text] or [kind |-> "or", a, b] for Or<a, b>.          *)
(***************************************************************************)
\* the macros this crate defines with macro_rules!
DefinedMacros == {"tlbf", "tyflags"}

Exprs == {"Red", "Green", "Red|Blue"}

Join(exprs, trailing) == [macro |-> "tyflags", exprs |-> exprs, trailing |-> trailing]

Leaf(text) == [kind |-> "expr", text |-> text]

\* arm 1: exactly one expression
TyArm1Matches(i) ==
    /\ i.macro = "tyflags"
    /\ Len(i.exprs) = 1

TyArm1(i) == Leaf(i.exprs[1])

\* arm 2: a first expression and the rest
TyArm2Matches(i) ==
    /\ i.macro = "tyflags"
    /\ Len(i.exprs) >= 1

\* arm 2 emits Or<first, type_join!(rest)>: the invocation nested in it
TyArm2(i) == [macro |-> "type_join", exprs |-> Tail(i.exprs), trailing |-> FALSE]

\* the emitted type: t inside the Or<first, _> wrappers, outermost first
RECURSIVE Wrap(_, _)
Wrap(firsts, t) ==
    IF firsts = <<>> THEN t
    ELSE [kind |-> "or", a |-> Leaf(Head(firsts)), b |-> Wrap(Tail(firsts), t)]

(***************************************************************************)
(* SpecExpand: the expander at work on one invocation                      *)
(***************************************************************************)
\* the sequential declarations; a trailing comma follows a flag
Declarations ==
    UNION { { Sequential(repr, t[1], t[2], t[3]) :
                t \in { u \in BOOLEAN \X (0..repr + MaxExtra) \X BOOLEAN :
                          u[3] => u[2] >= 1 } } : repr \in Reprs }

RECURSIVE SeqsUpTo(_, _)
SeqsUpTo(S, n) ==
    IF n = 0 THEN {<<>>}
    ELSE SeqsUpTo(S, n - 1) \cup
         { Append(s, x) : <<s, x>> \in { q \in SeqsUpTo(S, n - 1) : Len(q) = n - 1 } \X S }

Joins ==
    { Join(exprs, trailing) :
        <<exprs, trailing>> \in (SeqsUpTo(Exprs, MaxExprs) \ {<<>>}) \X BOOLEAN }

ExpandInit ==
    /\ decl \in Declarations \cup Joins
    /\ inv = decl
    /\ ctx = <<>>
    /\ pc = "expanding"
    /\ depth = 0
    /\ out = None
    /\ group = None
    /\ c = 0
    /\ m = None
    /\ ret = None

Recurse(next) ==
    /\ pc = "expanding"
    /\ depth < RecursionLimit
    /\ inv' = next
    /\ depth' = depth + 1
    /\ UNCHANGED <<decl, pc, out>>
    /\ UNCHANGED apiVars

ExpandArm1 ==
    /\ Arm1Matches(inv)
    /\ Recurse(Arm1(inv))
    /\ UNCHANGED ctx

ExpandArm2 ==
    /\ ~Arm1Matches(inv)
    /\ Arm2Matches(inv)
    /\ Recurse(Arm2(inv))
    /\ UNCHANGED ctx

ExpandArm3 ==
    /\ ~Arm1Matches(inv)
    /\ ~Arm2Matches(inv)
    /\ Arm3Matches(inv)
    /\ Recurse(Arm3(inv))
    /\ UNCHANGED ctx

ExpandArm4 ==
    /\ pc = "expanding"
    /\ ~Arm1Matches(inv)
    /\ ~Arm2Matches(inv)
    /\ ~Arm3Matches(inv)
    /\ Arm4Matches(inv)
    /\ pc' = "emitted"
    /\ out' = Arm4(inv)
    /\ UNCHANGED <<decl, inv, ctx, depth>>
    /\ UNCHANGED apiVars

\* the expander gives up on an invocation nested deeper than the limit
RecursionLimitReached ==
    /\ pc = "expanding"
    /\ inv.macro \in DefinedMacros
    /\ depth >= RecursionLimit
    /\ pc' = "recursion_limit"
    /\ UNCHANGED <<decl, inv, ctx, depth, out>>
    /\ UNCHANGED apiVars

\* the compiler evaluates the named constants of the emitted items
EvalConsts ==
    /\ pc = "emitted"
    /\ IF \A k \in 1..Len(out.consts) : ConstEval(out)[k].ok
       THEN pc' = "built" /\ out' = Built(out)
       ELSE pc' = "rejected" /\ out' = out
    /\ UNCHANGED <<decl, inv, ctx, depth>>
    /\ UNCHANGED apiVars

ExpandTyArm1 ==
    /\ pc = "expanding"
    /\ TyArm1Matches(inv)
    /\ pc' = "joined"
    /\ out' = Wrap(ctx, TyArm1(inv))
    /\ UNCHANGED <<decl, inv, ctx, depth>>
    /\ UNCHANGED apiVars

ExpandTyArm2 ==
    /\ ~TyArm1Matches(inv)
    /\ TyArm2Matches(inv)
    /\ Recurse(TyArm2(inv))
    /\ ctx' = Append(ctx, Head(inv.exprs))

\* an invocation of a macro no macro_rules! defines does not resolve
UndefinedMacro ==
    /\ pc = "expanding"
    /\ inv.macro \notin DefinedMacros
    /\ pc' = "undefined_macro"
    /\ UNCHANGED <<decl, inv, ctx, depth, out>>
    /\ UNCHANGED apiVars

ExpandNext ==
    \/ ExpandArm1
    \/ ExpandArm2
    \/ ExpandArm3
    \/ ExpandArm4
    \/ RecursionLimitReached
    \/ EvalConsts
    \/ ExpandTyArm1
    \/ ExpandTyArm2
    \/ UndefinedMacro

SpecExpand == ExpandInit /\ [][ExpandNext]_vars

(***************************************************************************)
(* The generated API.  g is a built group; a set member is                 *)
(*   [kind |-> "flag", idx |-> k]   the marker of the k-th declared flag   *)
(*   [kind |-> "set", bits |-> v]   a container value                      *)
(*   [kind |-> "or", a |-> A, b |-> B]   the combinator Or<A, B>           *)
(* A type argument of Or is written as the Default value of the type.      *)
(***************************************************************************)
Flag(k) == [kind |-> "flag", idx |-> k]
Set(v) == [kind |-> "set", bits |-> v]
Or(a, b) == [kind |-> "or", a |-> a, b |-> b]

\* the named constant of the k-th flag
Const(g, k) == g.consts[k]

\* Default::default(): a marker is a unit struct, Or is a phantom, and the
\* container's derived Default is the zero representation
DefaultOf(x) == IF x.kind = "set" THEN Set(0) ELSE x

\* SetMember for the container
ContainerToSet(bits) == bits

ContainerEqSet(bits, set) == bits = set

ContainerInSet(bits, set) == BitAnd(set, bits) = bits

\* the container's operators take the right operand's to_set()
\* the complement of the right operand's bits is mixed in
ContainerBitXorNot(g, self, rhsSet) == BitXor(self, BitXor(rhsSet, Pow2(g.repr) - 1))

ContainerBitAnd(g, self, rhsSet) == BitAnd(self, rhsSet)

ContainerBitOr(g, self, rhsSet) == BitOr(self, rhsSet)

ContainerBitXor(g, self, rhsSet) == BitXor(self, rhsSet)

\* all() leaves out the first constant
RECURSIVE AllButFirst(_)
AllButFirst(g) ==
    IF Len(g.consts) <= 1 THEN 0
    ELSE ContainerBitOr(g, AllButFirst([g EXCEPT !.consts = SubSeq(g.consts, 1, Len(g.consts) - 1)]),
                        Const(g, Len(g.consts)))

\* all(): C1 | C2 | ... | Cn, the container's | from left to right
RECURSIVE All(_)
All(g) ==
    IF Len(g.consts) = 1 THEN Const(g, 1)
    ELSE ContainerBitOr(g, All([g EXCEPT !.consts = SubSeq(g.consts, 1, Len(g.consts) - 1)]),
                        Const(g, Len(g.consts)))

\* SetMember for a marker
MarkerToSet(g, k) == Const(g, k)

MarkerEqSet(g, k, set) == set = Const(g, k)

\* the marker tests the constant of the flag declared after it
MarkerInSetNext(g, k, set) ==
    ContainerBitAnd(g, set, Const(g, (k % Len(g.consts)) + 1)) = Const(g, (k % Len(g.consts)) + 1)

MarkerInSet(g, k, set) == ContainerBitAnd(g, set, Const(g, k)) = Const(g, k)

\* SetMember for Or<A, B>, given what A and B answer
\* the union keeps only A
OrToSetLeft(g, defA, defB) == defA

OrToSet(g, defA, defB) == ContainerBitOr(g, defA, defB)

\* both halves are required
OrInSetBoth(inA, inB) == inA /\ inB

OrInSet(inA, inB) == inA \/ inB

\* the combinator counts as equal to any superset of its union
OrEqSetSuperset(g, defSelf, set) == ContainerBitAnd(g, set, defSelf) = defSelf

OrEqSet(g, defSelf, set) == defSelf = set

RECURSIVE ToSet(_, _)
ToSet(g, x) ==
    IF x.kind = "flag" THEN MarkerToSet(g, x.idx)
    ELSE IF x.kind = "set" THEN ContainerToSet(x.bits)
    ELSE OrToSet(g, ToSet(g, DefaultOf(x.a)), ToSet(g, DefaultOf(x.b)))

\* SetMember::default_set
DefaultSet(g, x) == ToSet(g, DefaultOf(x))

EqSet(g, x, set) ==
    IF x.kind = "flag" THEN MarkerEqSet(g, x.idx, set)
    ELSE IF x.kind = "set" THEN ContainerEqSet(x.bits, set)
    ELSE OrEqSet(g, DefaultSet(g, x), set)

RECURSIVE InSet(_, _, _)
InSet(g, x, set) ==
    IF x.kind = "flag" THEN MarkerInSet(g, x.idx, set)
    ELSE IF x.kind = "set" THEN ContainerInSet(x.bits, set)
    ELSE OrInSet(InSet(g, DefaultOf(x.a), set), InSet(g, DefaultOf(x.b), set))

\* the container's methods
Contains(g, self, other) == InSet(g, other, self)

Equals(g, self, other) == EqSet(g, other, self)

\* marker | rhs
MarkerBitOr(g, k, rhs) == ContainerBitOr(g, Const(g, k), ToSet(g, rhs))

RECURSIVE Leaves(_)
Leaves(x) == IF x.kind = "or" THEN Leaves(x.a) + Leaves(x.b) ELSE 1

(***************************************************************************)
(* Spec: the generated API at work on a declared group                     *)
(***************************************************************************)
\* the representation of the groups the API is exercised on: u8
ApiRepr == 8

Groups ==
    { Built(ExpandAll(Sequential(ApiRepr, derive, n, FALSE))) :
        <<derive, n>> \in BOOLEAN \X (1..MaxGroup) }

FlagCount == Len(group.consts)

\* the types Or<_, _> can be built from: the markers, and the container when
\* the group derives Default
LeafTypes ==
    { Flag(k) : k \in 1..FlagCount } \cup (IF group.derive THEN {Set(0)} ELSE {})

Init ==
    /\ group \in Groups
    /\ c \in { Const(group, k) : k \in 1..Len(group.consts) } \cup {All(group)}
    /\ m \in { Flag(k) : k \in 1..Len(group.consts) }
    /\ ret = None
    /\ decl = None
    /\ inv = None
    /\ ctx = <<>>
    /\ pc = "run"
    /\ depth = 0
    /\ out = None

Idle == ret = None /\ UNCHANGED group /\ UNCHANGED expandVars

\* Self::Fk
UseConst(k) ==
    /\ Idle
    /\ c' = Const(group, k)
    /\ UNCHANGED <<m, ret>>

CallAll ==
    /\ Idle
    /\ c' = All(group)
    /\ ret' = [op |-> "all", val |-> All(group)]
    /\ UNCHANGED m

CallContains ==
    /\ Idle
    /\ ret' = [op |-> "contains", val |-> Contains(group, c, m)]
    /\ UNCHANGED <<c, m>>

CallEquals ==
    /\ Idle
    /\ ret' = [op |-> "equals", val |-> Equals(group, c, m)]
    /\ UNCHANGED <<c, m>>

CallToSet ==
    /\ Idle
    /\ ret' = [op |-> "to_set", val |-> ToSet(group, m)]
    /\ UNCHANGED <<c, m>>

Return ==
    /\ ret # None
    /\ ret' = None
    /\ UNCHANGED <<group, c, m>>
    /\ UNCHANGED expandVars

\* c & m, c | m, c ^ m: a new container value
OpBitAnd ==
    /\ Idle
    /\ m' = Set(ContainerBitAnd(group, c, ToSet(group, m)))
    /\ UNCHANGED <<c, ret>>

OpBitOr ==
    /\ Idle
    /\ m' = Set(ContainerBitOr(group, c, ToSet(group, m)))
    /\ UNCHANGED <<c, ret>>

OpBitXor ==
    /\ Idle
    /\ m' = Set(ContainerBitXor(group, c, ToSet(group, m)))
    /\ UNCHANGED <<c, ret>>

\* c &= m, c |= m, c ^= m
OpBitAndAssign ==
    /\ Idle
    /\ c' = ContainerBitAnd(group, c, ToSet(group, m))
    /\ UNCHANGED <<m, ret>>

OpBitOrAssign ==
    /\ Idle
    /\ c' = ContainerBitOr(group, c, ToSet(group, m))
    /\ UNCHANGED <<m, ret>>

OpBitXorAssign ==
    /\ Idle
    /\ c' = ContainerBitXor(group, c, ToSet(group, m))
    /\ UNCHANGED <<m, ret>>

\* Fk | m
OpMarkerBitOr(k) ==
    /\ Idle
    /\ c' = MarkerBitOr(group, k, m)
    /\ UNCHANGED <<m, ret>>

\* the right operand becomes the marker Fk
TakeMarker(k) ==
    /\ Idle
    /\ m' = Flag(k)
    /\ UNCHANGED <<c, ret>>

\* the right operand becomes a copy of the container
TakeContainer ==
    /\ Idle
    /\ m' = Set(c)
    /\ UNCHANGED <<c, ret>>

\* the right operand becomes Or<M, T> or Or<T, M>, M its own type
CanJoin == (m.kind = "set" => group.derive) /\ Leaves(m) < MaxLeaves

JoinRight(t) ==
    /\ Idle
    /\ CanJoin
    /\ m' = Or(DefaultOf(m), t)
    /\ UNCHANGED <<c, ret>>

JoinLeft(t) ==
    /\ Idle
    /\ CanJoin
    /\ m' = Or(t, DefaultOf(m))
    /\ UNCHANGED <<c, ret>>

Next ==
    \/ \E k \in 1..FlagCount : UseConst(k)
    \/ CallAll
    \/ CallContains
    \/ CallEquals
    \/ CallToSet
    \/ Return
    \/ OpBitAnd
    \/ OpBitOr
    \/ OpBitXor
    \/ OpBitAndAssign
    \/ OpBitOrAssign
    \/ OpBitXorAssign
    \/ \E k \in 1..FlagCount : OpMarkerBitOr(k)
    \/ \E k \in 1..FlagCount : TakeMarker(k)
    \/ TakeContainer
    \/ \E t \in LeafTypes : JoinRight(t)
    \/ \E t \in LeafTypes : JoinLeft(t)

Spec == Init /\ [][Next]_vars

(***************************************************************************)
(* Properties of the generated API (under Spec)                            *)
(***************************************************************************)
Called(op) == ret # None /\ ret.op = op

\* the flags (by position) at the leaves of a member
RECURSIVE LeafFlags(_)
LeafFlags(x) ==
    IF x.kind = "flag" THEN {x.idx}
    ELSE IF x.kind = "set" THEN { k \in 1..FlagCount : Bit(x.bits, k - 1) }
    ELSE LeafFlags(DefaultOf(x.a)) \cup LeafFlags(DefaultOf(x.b))

\* the leaves of a member, as members
RECURSIVE LeafMembers(_)
LeafMembers(x) ==
    IF x.kind = "or" THEN LeafMembers(DefaultOf(x.a)) \cup LeafMembers(DefaultOf(x.b))
    ELSE {x}

\* the integer whose set bits are the positions k - 1, k in ks
RECURSIVE BitsOf(_)
BitsOf(ks) ==
    IF ks = {} THEN 0
    ELSE LET k == CHOOSE x \in ks : TRUE IN Pow2(k - 1) + BitsOf(ks \ {k})

\* Red | Green
RedOrGreen == MarkerBitOr(group, 1, Flag(2))

\* C1: contains of a single flag marker f_i is true iff bit i of the
\* container is set; (Red|Green) contains Red and Green and not Blue.
C1_MarkerContains ==
    Called("contains") /\ m.kind = "flag" =>
        /\ ret.val = Bit(c, m.idx - 1)
        /\ FlagCount >= 3 /\ c = RedOrGreen => ret.val = (m.idx \in {1, 2})

C1_Witness ==
    /\ Called("contains")
    /\ FlagCount = 3
    /\ c = RedOrGreen
    /\ m = Flag(3)
    /\ ret.val = FALSE

C3_OrInSet ==
    Called("contains") /\ m.kind = "or" =>
        /\ ret.val = (InSet(group, DefaultOf(m.a), c) \/ InSet(group, DefaultOf(m.b), c))
        /\ ret.val = (\E x \in LeafMembers(m) :
                        \A k \in LeafFlags(x) : Bit(c, k - 1))
        /\ FlagCount >= 3 /\ m = Or(Flag(1), Flag(2)) =>
              /\ c = Const(group, 3) => ret.val = FALSE
              /\ c = Const(group, 1) => ret.val = TRUE

C3_Witness ==
    /\ Called("contains")
    /\ FlagCount = 3
    /\ m = Or(Flag(1), Flag(2))
    /\ c = Const(group, 1)
    /\ ret.val = TRUE

\* C4: equals (eq_set) is true iff the member's to_set() is the container bit
\* for bit; a strict superset or subset is not equal.
C4_EqSetExact ==
    Called("equals") =>
        /\ ret.val = (ToSet(group, m) = c)
        /\ ret.val = (\A k \in 1..group.repr : Bit(c, k - 1) <=> k \in LeafFlags(m))

C4_Witness ==
    /\ Called("equals")
    /\ m.kind = "or"
    /\ c # ToSet(group, m)
    /\ BitAnd(c, ToSet(group, m)) = ToSet(group, m)
    /\ ret.val = FALSE

\* C5: Or<A, B>.to_set() is the union of A's and B's default sets at any
\* depth, so it is the same however the nesting is associated.
C5_OrToSetUnion ==
    Called("to_set") /\ m.kind = "or" =>
        /\ ret.val = BitOr(DefaultSet(group, m.a), DefaultSet(group, m.b))
        /\ ret.val = BitsOf(LeafFlags(m))
        /\ m.b.kind = "or" => ret.val = ToSet(group, Or(Or(m.a, m.b.a), m.b.b))
        /\ m.a.kind = "or" => ret.val = ToSet(group, Or(m.a.a, Or(m.a.b, m.b)))

C5_Witness ==
    /\ Called("to_set")
    /\ m = Or(Flag(1), Or(Flag(2), Flag(3)))
    /\ ret.val = 7

\* C6: all() is the union of every declared flag's constant and contains
\* every declared flag; in a one-flag group it is that flag's constant.
C6_All ==
    Called("all") =>
        /\ c = ret.val
        /\ \A i \in 0..group.repr - 1 :
              Bit(ret.val, i) <=> \E k \in 1..FlagCount : Bit(Const(group, k), i)
        /\ \A k \in 1..FlagCount : Contains(group, ret.val, Flag(k))
        /\ FlagCount = 1 => ret.val = Const(group, 1)

C6_Witness ==
    /\ Called("all")
    /\ FlagCount = 3
    /\ ret.val = 7
    /\ Contains(group, ret.val, Flag(3))

\* C10: whatever &, |, ^ and their assigning forms are applied, a container
\* has no bit set at an index >= n: it is a subset of all().
C10_WithinAll ==
    \A v \in {c} \cup (IF m.kind = "set" THEN {m.bits} ELSE {}) :
        /\ \A i \in FlagCount..group.repr - 1 : ~Bit(v, i)
        /\ v < Pow2(group.repr)
        /\ BitAnd(v, All(group)) = v

C10_Witness ==
    /\ FlagCount = 3
    /\ c = 5
    /\ m = Set(2)

(***************************************************************************)
(* Properties of the macros (under SpecExpand)                             *)
(***************************************************************************)
Declared == Len(decl.list)

\* the k-th item carries the k-th declared name and the index k - 1
Indexed(items, k) ==
    /\ items[k].hasVal
    /\ items[k].name = decl.list[k].name
    /\ EvalExpr(items[k].val) = k - 1

SomeArmMatches ==
    Arm1Matches(inv) \/ Arm2Matches(inv) \/ Arm3Matches(inv) \/ Arm4Matches(inv)

SequentialExpansion ==
    \* it ends: one step per flag and one each for arms 1 and 3, then arm 4
    /\ depth <= Declared + 2
    /\ pc # "recursion_limit"
    /\ pc = "expanding" => SomeArmMatches
    \* the accumulator arms
    /\ pc = "expanding" /\ inv.hasAcc =>
          /\ Len(inv.acc) + Len(inv.list) = Declared
          /\ \A k \in 1..Len(inv.acc) : Indexed(inv.acc, k)
    \* the explicit-value form
    /\ pc = "expanding" /\ ~inv.hasAcc /\ depth > 0 =>
          /\ Len(inv.list) = Declared
          /\ \A k \in 1..Declared : Indexed(inv.list, k)
    /\ pc \in {"emitted", "rejected"} =>
          /\ Len(out.consts) = Declared
          /\ \A k \in 1..Declared :
                /\ out.consts[k].name = decl.list[k].name
                /\ EvalExpr(out.consts[k].shift) = k - 1
    /\ pc = "built" =>
          /\ Len(out.consts) = Declared
          /\ \A k \in 1..Declared :
                /\ out.names[k] = decl.list[k].name
                /\ out.consts[k] = Pow2(k - 1)
          /\ \A j, k \in 1..Declared : j # k => out.consts[j] # out.consts[k]

\* C7: the sequential form expands through the accumulator arms to the
\* explicit-value form, the i-th flag carrying index i and the constant
\* 1 << i, all distinct single bits, and the expansion ends for every finite
\* flag list.
C7_AsClaimed == decl.macro = "tlbf" => SequentialExpansion

\* C7, amended: as claimed for every flag list that is not empty.
C7_SequentialIndices ==
    decl.macro = "tlbf" /\ Declared >= 1 => SequentialExpansion

C7_Witness ==
    /\ pc = "built"
    /\ Declared = 3
    /\ depth = 5
    /\ out.consts = <<1, 2, 4>>

\* C8: a group of exactly W flags over a W-bit representation builds, every
\* flag a bit inside the representation; W + 1 flags are rejected at build
\* time, no flag's bit is lost or wraps.
C8_WidthBoundary ==
    decl.macro = "tlbf" =>
        /\ pc = "built" =>
              /\ Declared <= decl.repr
              /\ \A k \in 1..Declared :
                    /\ out.consts[k] < Pow2(decl.repr)
                    /\ \E i \in 0..decl.repr - 1 : out.consts[k] = Pow2(i)
        /\ pc = "rejected" => Declared > decl.repr
        /\ pc = "emitted" /\ Declared = decl.repr =>
              \A k \in 1..Declared : ConstEval(out)[k].ok
        /\ pc = "emitted" /\ Declared = decl.repr + 1 =>
              ~ConstEval(out)[Declared].ok

C8_Witness ==
    /\ pc = "rejected"
    /\ Declared = decl.repr + 1

\* the fully right-associated nesting Or<e1, Or<e2, ... ek>>
RECURSIVE RightNested(_)
RightNested(exprs) ==
    IF Len(exprs) = 1 THEN Leaf(exprs[1])
    ELSE [kind |-> "or", a |-> Leaf(Head(exprs)), b |-> RightNested(Tail(exprs))]

\* C9: tyflags! of one expression is that expression, and of two or more is
\* the fully right-associated nesting of Or over them, in order.
C9_JoinNesting ==
    decl.macro = "tyflags" /\ pc # "expanding" =>
        /\ pc = "joined"
        /\ out = RightNested(decl.exprs)

====
